---------------------------- MODULE Spec2Model ----------------------------
(***************************************************************************)
(* Tire search: query interpretation (extract_size, extract_brand,         *)
(* extract_categories), the deterministic filter (filter_tires), the       *)
(* fallback, the ranking call and its absorption of failures               *)
(* (ai_search_and_rank) and the caller-facing search endpoint (app.py).    *)
(*                                                                         *)
(* A Python str is a sequence of one-character strings; None is the        *)
(* one-element sequence <<"None">>, whose element is no character, so it   *)
(* differs from every str, the empty one included.                         *)
(***************************************************************************)
EXTENDS Integers, Sequences, FiniteSets, TLC

VARIABLES
    query,            \* the raw query text
    tires,            \* the catalog: a sequence of items (dicts)
    keyword_mapping,  \* the taxonomy: category name -> sequence of trigger words
    brand_keywords,   \* extract_brand's trigger list, when called on its own
    api_key,          \* ai_search_and_rank's api_key argument
    env_key,          \* whether the environment holds OPENAI_API_KEY
    max_results,      \* ai_search_and_rank's max_results argument
    target_size,      \* extracted size, or None
    target_brand,     \* extracted brand, or None
    categories,       \* extracted categories (a set)
    candidates,       \* the candidate sequence (filter result, or the fallback)
    refiltered,       \* filter_tires applied to its own result
    sent,             \* the candidate sequence serialized into the prompt
    response,         \* what the ranking call did: [kind, value]
    result,           \* ai_search_and_rank's return value
    pc,               \* position in the running operation
    API_KEY,          \* app.py's module-level key
    data_file,        \* data/tires.json on disk
    page              \* what search handed to the template

vars == <<query, tires, keyword_mapping, brand_keywords, api_key, env_key,
          max_results, target_size, target_brand, categories, candidates,
          refiltered, sent, response, result, pc, API_KEY, data_file, page>>

----------------------------------------------------------------------------
\* Python values

None == <<"None">>

\* Python truthiness of an optional str: None and "" are falsy.
Truthy(x) == x # None /\ x # <<>>

UpperLetters == <<"A","B","C","D","E","F","G","H","I","J","K","L","M",
                  "N","O","P","Q","R","S","T","U","V","W","X","Y","Z">>
LowerLetters == <<"a","b","c","d","e","f","g","h","i","j","k","l","m",
                  "n","o","p","q","r","s","t","u","v","w","x","y","z">>

LowerChar(c) ==
    IF \E i \in DOMAIN UpperLetters : UpperLetters[i] = c
    THEN LowerLetters[CHOOSE i \in DOMAIN UpperLetters : UpperLetters[i] = c]
    ELSE c

UpperChar(c) ==
    IF \E i \in DOMAIN LowerLetters : LowerLetters[i] = c
    THEN UpperLetters[CHOOSE i \in DOMAIN LowerLetters : LowerLetters[i] = c]
    ELSE c

\* str.lower() and str.upper()
Lower(s) == [i \in 1..Len(s) |-> LowerChar(s[i])]
Upper(s) == [i \in 1..Len(s) |-> UpperChar(s[i])]

\* the regex class \s
IsSpace(c) == c \in {" ", "\t", "\n", "\r", "\f"}

\* Python's `a in b` on two strs
IsSubstring(a, b) ==
    \E i \in 0..(Len(b) - Len(a)) : SubSeq(b, i + 1, i + Len(a)) = a

\* s[:n] for n >= 0
Take(s, n) == SubSeq(s, 1, IF n < Len(s) THEN n ELSE Len(s))

Range(s) == {s[i] : i \in DOMAIN s}

\* dict.get(key, default)
Get(d, key, default) == IF key \in DOMAIN d THEN d[key] ELSE default

RECURSIVE Concat(_)
Concat(ss) == IF ss = <<>> THEN <<>> ELSE Head(ss) \o Concat(Tail(ss))

SeqsUpTo(S, n) == UNION {[1..k -> S] : k \in 0..n}

----------------------------------------------------------------------------
\* extract_size: re.search(r"r\s*(1[4-9])", query.lower())

\* where \s* stops: the first index >= i that holds no whitespace
SkipSpace(s, i) ==
    CHOOSE j \in i..(Len(s) + 1) :
        /\ \A k \in i..(j - 1) : IsSpace(s[k])
        /\ (j <= Len(s) => ~IsSpace(s[j]))

\* the pattern matches with its "r" at index i
MatchAt(s, i) ==
    /\ s[i] = "r"
    /\ LET j == SkipSpace(s, i + 1)
       IN  /\ j + 1 <= Len(s)
           /\ s[j] = "1"
           /\ s[j + 1] \in {"4", "5", "6", "7", "8", "9"}

\* a slip: the last match instead of the first
extract_size_last(q) ==
    LET lq == Lower(q)
        starts == {i \in 1..Len(lq) : MatchAt(lq, i)}
    IN  IF starts = {}
        THEN None
        ELSE LET i == CHOOSE m \in starts : \A n \in starts : m >= n
                 j == SkipSpace(lq, i + 1)
             IN  <<"R", lq[j], lq[j + 1]>>

extract_size(q) ==
    LET lq == Lower(q)
        starts == {i \in 1..Len(lq) : MatchAt(lq, i)}
    IN  IF starts = {}
        THEN None
        ELSE LET i == CHOOSE m \in starts : \A n \in starts : m <= n
                 j == SkipSpace(lq, i + 1)
             IN  <<"R", lq[j], lq[j + 1]>>


----------------------------------------------------------------------------
\* extract_brand: the first trigger, in list order, found in the query

RECURSIVE BrandLoop(_, _)
BrandLoop(q, bs) ==
    IF bs = <<>>
    THEN None
    ELSE IF IsSubstring(Lower(Head(bs)), q)
         THEN Head(bs)
         ELSE BrandLoop(q, Tail(bs))

\* a slip: the query is not lower-cased
extract_brand_raw_query(q, bs) == BrandLoop(q, bs)

extract_brand(q, bs) == BrandLoop(Lower(q), bs)

\* extract_categories: every category, "brand" and "size" apart, one of whose
\* trigger words is found in the query
extract_categories(q, km) ==
    {c \in (DOMAIN km) \ {"brand", "size"} :
        \E i \in DOMAIN km[c] : IsSubstring(Lower(km[c][i]), Lower(q))}

----------------------------------------------------------------------------
\* filter_tires

\* a slip: the item's size is not upper-cased
tire_match_size_raw(tire_size, size) ==
    IF ~Truthy(size) THEN TRUE ELSE IsSubstring(size, tire_size)

tire_match_size(tire_size, size) ==
    IF ~Truthy(size) THEN TRUE ELSE IsSubstring(size, Upper(tire_size))

\* the three tests of the loop body: TRUE when the item is appended
Keeps(t, cats, size, brand) ==
    /\ ~ ( /\ Truthy(brand)
           /\ ~IsSubstring(brand, Get(t, "brand_cn", <<>>))
           /\ ~IsSubstring(brand, Get(t, "brand_en", <<>>)) )
    /\ tire_match_size(Get(t, "size", <<>>), size)
    /\ ~ ( /\ cats # {}
           /\ ~ \E c \in cats : c \in Range(Get(t, "categories", <<>>)) )

RECURSIVE FilterLoop(_, _, _, _, _)
FilterLoop(ts, cats, size, brand, acc) ==
    IF ts = <<>>
    THEN acc
    ELSE FilterLoop(Tail(ts), cats, size, brand,
                    IF Keeps(Head(ts), cats, size, brand)
                    THEN Append(acc, Head(ts))
                    ELSE acc)

\* a slip: the loop starts at the second item
filter_tires_skip_first(ts, cats, size, brand) ==
    FilterLoop(IF ts = <<>> THEN ts ELSE Tail(ts), cats, size, brand, <<>>)

filter_tires(ts, cats, size, brand) == FilterLoop(ts, cats, size, brand, <<>>)

----------------------------------------------------------------------------
\* Values left alone by the operations a specification does not run

NoCatalog == <<>>
NoMapping == [brand |-> <<>>]
NoResponse == [kind |-> "none", value |-> <<>>]
NoFile == [kind |-> "missing", tires |-> <<>>, keyword_mapping |-> NoMapping]
NoPage == [error |-> "none", results |-> <<>>]

----------------------------------------------------------------------------
\* Catalog data: the three items of the end-to-end scenario and two more

Brand1 == <<"B", "r", "a", "n", "d", "1">>
Brand2 == <<"B", "r", "a", "n", "d", "2">>
brand1 == <<"b", "r", "a", "n", "d", "1">>
Pai1 == <<"p", "a", "i", "1">>
Pai2 == <<"p", "a", "i", "2">>
R16 == <<"R", "1", "6">>
R17 == <<"R", "1", "7">>

ItemA == [brand_cn |-> Pai1, brand_en |-> Brand1,
          size |-> <<"2", "0", "5", "/", "5", "5", "R", "1", "6">>,
          categories |-> <<"comfort">>]
ItemB == [brand_cn |-> Pai2, brand_en |-> Brand2,
          size |-> <<"2", "2", "5", "/", "4", "5", "R", "1", "7">>,
          categories |-> <<"sport">>]
ItemC == [brand_cn |-> Pai1, brand_en |-> Brand1,
          size |-> <<"2", "0", "5", "/", "5", "5", "R", "1", "7">>,
          categories |-> <<"sport">>]
\* the brand in brand_cn only, a lower-case r in the size, two categories
ItemD == [brand_cn |-> Brand1, brand_en |-> <<>>,
          size |-> <<"2", "1", "5", "/", "6", "0", "r", "1", "7">>,
          categories |-> <<"comfort", "sport">>]
\* a dict with a size and nothing else
ItemE == [size |-> <<"1", "9", "5", "/", "6", "5", "R", "1", "6">>]

Items == {ItemA, ItemB, ItemC, ItemD, ItemE}

ScenarioCatalog == <<ItemA, ItemB, ItemC>>

\* the scenario's taxonomy, with a second category whose trigger has an
\* upper-case letter and the reserved "size" entry
Taxonomy ==
    [brand |-> <<Brand1, Brand2>>,
     size |-> <<<<"r", "1">>>>,
     sport |-> <<<<"s", "p", "o", "r", "t">>>>,
     comfort |-> <<<<"Q", "u", "i", "e", "t">>>>]

\* "Brand1 r17 sport"
ScenarioQuery ==
    <<"B", "r", "a", "n", "d", "1", " ", "r", "1", "7", " ",
      "s", "p", "o", "r", "t">>
\* "tire": no size, no brand, no category
PlainQuery == <<"t", "i", "r", "e">>
\* "BRAND2 R 16 quiet": a brand, a size and a category no item has together
NoMatchQuery ==
    <<"B", "R", "A", "N", "D", "2", " ", "R", " ", "1", "6", " ",
      "q", "u", "i", "e", "t">>
\* "r17"
SizeQuery == <<"r", "1", "7">>

Queries == {ScenarioQuery, PlainQuery, NoMatchQuery, SizeQuery}

----------------------------------------------------------------------------
\* extract_size on its own: queries are concatenations of a few tokens

MaxSizeTokens == 4

SizeTokens ==
    { <<"r">>, <<"R">>, <<" ">>, <<"\t">>, <<"1">>, <<"6">>, <<"5">>,
      <<"1", "4">>, <<"1", "6">>, <<"2", "0">> }

SizeQueries == {Concat(ts) : ts \in SeqsUpTo(SizeTokens, MaxSizeTokens)}

InitSize ==
    /\ query \in SizeQueries
    /\ pc = "start"
    /\ target_size = None
    /\ target_brand = None
    /\ categories = {}
    /\ tires = NoCatalog
    /\ keyword_mapping = NoMapping
    /\ brand_keywords = <<>>
    /\ api_key = None
    /\ env_key = FALSE
    /\ max_results = 0
    /\ candidates = <<>>
    /\ refiltered = <<>>
    /\ sent = <<>>
    /\ response = NoResponse
    /\ result = <<>>
    /\ API_KEY = None
    /\ data_file = NoFile
    /\ page = NoPage

\* target_size = extract_size(query)
CallExtractSize ==
    /\ pc = "start"
    /\ target_size' = extract_size(query)
    /\ pc' = "done"
    /\ UNCHANGED <<query, tires, keyword_mapping, brand_keywords, api_key,
                   env_key, max_results, target_brand, categories, candidates,
                   refiltered, sent, response, result, API_KEY, data_file, page>>

NextSize == CallExtractSize

SpecSize == InitSize /\ [][NextSize]_vars

----------------------------------------------------------------------------
\* extract_brand on its own

MaxBrandTokens == 3
MaxTriggers == 2

BrandTokens == { <<"a">>, <<"A">>, <<"b">>, <<"B">>, <<" ">> }

BrandQueries == {Concat(ts) : ts \in SeqsUpTo(BrandTokens, MaxBrandTokens)}

\* the empty trigger is a substring of every query
TriggerWords == { <<>>, <<"a", "b">>, <<"B">>, <<"b", "A">>, <<"A", " ", "a">> }

InitBrand ==
    /\ query \in BrandQueries
    /\ brand_keywords \in SeqsUpTo(TriggerWords, MaxTriggers)
    /\ pc = "start"
    /\ target_size = None
    /\ target_brand = None
    /\ categories = {}
    /\ tires = NoCatalog
    /\ keyword_mapping = NoMapping
    /\ api_key = None
    /\ env_key = FALSE
    /\ max_results = 0
    /\ candidates = <<>>
    /\ refiltered = <<>>
    /\ sent = <<>>
    /\ response = NoResponse
    /\ result = <<>>
    /\ API_KEY = None
    /\ data_file = NoFile
    /\ page = NoPage

\* target_brand = extract_brand(query, brand_keywords)
CallExtractBrand ==
    /\ pc = "start"
    /\ target_brand' = extract_brand(query, brand_keywords)
    /\ pc' = "done"
    /\ UNCHANGED <<query, tires, keyword_mapping, brand_keywords, api_key,
                   env_key, max_results, target_size, categories, candidates,
                   refiltered, sent, response, result, API_KEY, data_file, page>>

NextBrand == CallExtractBrand

SpecBrand == InitBrand /\ [][NextBrand]_vars

----------------------------------------------------------------------------
\* filter_tires on its own, with the intent of a query or any intent

MaxCatalogLen == 3

InitFilter ==
    /\ tires \in SeqsUpTo(Items, MaxCatalogLen)
    /\ keyword_mapping = Taxonomy
    /\ query \in Queries
    /\ pc = "start"
    /\ target_size = None
    /\ target_brand = None
    /\ categories = {}
    /\ brand_keywords = <<>>
    /\ api_key = None
    /\ env_key = FALSE
    /\ max_results = 0
    /\ candidates = <<>>
    /\ refiltered = <<>>
    /\ sent = <<>>
    /\ response = NoResponse
    /\ result = <<>>
    /\ API_KEY = None
    /\ data_file = NoFile
    /\ page = NoPage

\* the intent of the query, as ai_search_and_rank derives it
Interpret ==
    /\ pc = "start"
    /\ target_size' = extract_size(query)
    /\ target_brand' = extract_brand(query, Get(keyword_mapping, "brand", <<>>))
    /\ categories' = extract_categories(query, keyword_mapping)
    /\ pc' = "intent"
    /\ UNCHANGED <<query, tires, keyword_mapping, brand_keywords, api_key,
                   env_key, max_results, candidates, refiltered, sent,
                   response, result, API_KEY, data_file, page>>

\* any intent a caller of filter_tires may pass
DirectIntent ==
    /\ pc = "start"
    /\ target_size' \in {None, <<>>, R16, R17}
    /\ target_brand' \in {None, <<>>, Brand1, brand1, Brand2}
    /\ categories' \in SUBSET {"sport", "comfort"}
    /\ pc' = "intent"
    /\ UNCHANGED <<query, tires, keyword_mapping, brand_keywords, api_key,
                   env_key, max_results, candidates, refiltered, sent,
                   response, result, API_KEY, data_file, page>>

\* candidates = filter_tires(tires, categories, target_size, target_brand)
CallFilter ==
    /\ pc = "intent"
    /\ candidates' = filter_tires(tires, categories, target_size, target_brand)
    /\ pc' = "filtered"
    /\ UNCHANGED <<query, tires, keyword_mapping, brand_keywords, api_key,
                   env_key, max_results, target_size, target_brand, categories,
                   refiltered, sent, response, result, API_KEY, data_file, page>>

\* filter_tires(candidates, categories, target_size, target_brand)
CallRefilter ==
    /\ pc = "filtered"
    /\ refiltered' = filter_tires(candidates, categories, target_size, target_brand)
    /\ pc' = "done"
    /\ UNCHANGED <<query, tires, keyword_mapping, brand_keywords, api_key,
                   env_key, max_results, target_size, target_brand, categories,
                   candidates, sent, response, result, API_KEY, data_file, page>>

NextFilter == Interpret \/ DirectIntent \/ CallFilter \/ CallRefilter

SpecFilter == InitFilter /\ [][NextFilter]_vars

----------------------------------------------------------------------------
\* ai_search_and_rank

FallbackCap == 50
DefaultMaxResults == 20

\* a slip: the cap of 50 applied to the filter result too
FallbackAlwaysCapped(filtered, ts) ==
    Take(IF filtered = <<>> THEN ts ELSE filtered, FallbackCap)

\* lines 106-108: an empty filter result is replaced by tires[:50]
Fallback(filtered, ts) ==
    IF filtered = <<>> THEN Take(ts, FallbackCap) ELSE filtered

\* OpenAI(api_key=...) raises when it is given no key and the environment
\* holds none
ClientRaises(key, env) == key = None /\ ~env

\* what the ranking call did: it raised (network error, timeout), or it
\* returned content that is no JSON, JSON that is no list, or a JSON list
FailureKinds == {"raise", "not_json", "not_list"}

\* a slip: a failed ranking returns nothing
RankResultNoFallback(resp, cands, n) ==
    IF resp.kind = "list" THEN Take(resp.value, n) ELSE <<>>

\* a stricter variant: the ranked items that are no candidates are dropped
RankResultValidated(resp, cands, n) ==
    IF resp.kind = "list"
    THEN Take(SelectSeq(resp.value, LAMBDA t : t \in Range(cands)), n)
    ELSE Take(cands, n)

\* lines 129-136: a parsed list is cut to max_results and returned; anything
\* else falls through, or is caught, and the candidates are cut and returned
RankResult(resp, cands, n) ==
    IF resp.kind = "list" THEN Take(resp.value, n) ELSE Take(cands, n)

\* a slip: the fallback cuts the caller's list in place (del tires[50:])
PrepareInPlace ==
    /\ pc = "prepare"
    /\ target_size' = extract_size(query)
    /\ target_brand' = extract_brand(query, Get(keyword_mapping, "brand", <<>>))
    /\ categories' = extract_categories(query, keyword_mapping)
    /\ candidates' = Fallback(filter_tires(tires, categories', target_size',
                                          target_brand'), tires)
    /\ tires' = IF filter_tires(tires, categories', target_size', target_brand') = <<>>
                THEN candidates'
                ELSE tires
    /\ pc' = "construct"
    /\ UNCHANGED <<query, keyword_mapping, brand_keywords, api_key,
                   env_key, max_results, refiltered, sent, response, result,
                   API_KEY, data_file, page>>

\* lines 94-108: intent, filter, fallback
Prepare ==
    /\ pc = "prepare"
    /\ target_size' = extract_size(query)
    /\ target_brand' = extract_brand(query, Get(keyword_mapping, "brand", <<>>))
    /\ categories' = extract_categories(query, keyword_mapping)
    /\ candidates' = Fallback(filter_tires(tires, categories', target_size',
                                          target_brand'), tires)
    /\ pc' = "construct"
    /\ UNCHANGED <<query, tires, keyword_mapping, brand_keywords, api_key,
                   env_key, max_results, refiltered, sent, response, result,
                   API_KEY, data_file, page>>

\* line 110, outside the try: an exception here leaves ai_search_and_rank
Construct ==
    /\ pc = "construct"
    /\ pc' = IF ClientRaises(api_key, env_key) THEN "raised" ELSE "request"
    /\ UNCHANGED <<query, tires, keyword_mapping, brand_keywords, api_key,
                   env_key, max_results, target_size, target_brand, categories,
                   candidates, refiltered, sent, response, result, API_KEY,
                   data_file, page>>

\* an item the catalog does not hold
Foreign == [brand_cn |-> <<>>, brand_en |-> <<"F", "a", "k", "e">>,
            size |-> R16, categories |-> <<>>]

Reverse(s) == [i \in 1..Len(s) |-> s[Len(s) + 1 - i]]

\* the ranking service is free to answer anything
Responses(cands) ==
    {[kind |-> k, value |-> <<>>] : k \in FailureKinds}
    \cup {[kind |-> "list", value |-> v] :
            v \in {<<>>, cands, Reverse(cands), <<Foreign>>, <<Foreign>> \o cands}}

\* lines 112-136: the prompt with the serialized candidates, the call, the
\* parse, the return
Request ==
    /\ pc = "request"
    /\ sent' = candidates
    /\ \E r \in Responses(candidates) :
          /\ response' = r
          /\ result' = RankResult(r, candidates, max_results)
    /\ pc' = "returned"
    /\ UNCHANGED <<query, tires, keyword_mapping, brand_keywords, api_key,
                   env_key, max_results, target_size, target_brand, categories,
                   candidates, refiltered, API_KEY, data_file, page>>

----------------------------------------------------------------------------
\* ai_search_and_rank called on a loaded catalog, query after query

SmallMaxResults == 2
BigCatalogLen == 60

Key == <<"s", "k">>

\* the i-th item of a long catalog of one brand, sizes alternating
BigItem(i) ==
    [brand_cn |-> Pai1, brand_en |-> Brand1,
     size |-> IF i % 2 = 0 THEN ItemC.size ELSE ItemA.size,
     categories |-> <<"sport">>,
     id |-> i]

LongCatalog(n) == [i \in 1..n |-> BigItem(i)]

Catalogs ==
    {<<>>, ScenarioCatalog} \cup
    {LongCatalog(n) :
        n \in {FallbackCap - 1, FallbackCap, FallbackCap + 1, BigCatalogLen}}

InitRank ==
    /\ tires \in Catalogs
    /\ keyword_mapping = Taxonomy
    /\ env_key \in BOOLEAN
    /\ pc = "idle"
    /\ query = <<>>
    /\ api_key = None
    /\ max_results = DefaultMaxResults
    /\ target_size = None
    /\ target_brand = None
    /\ categories = {}
    /\ brand_keywords = <<>>
    /\ candidates = <<>>
    /\ refiltered = <<>>
    /\ sent = <<>>
    /\ response = NoResponse
    /\ result = <<>>
    /\ API_KEY = None
    /\ data_file = NoFile
    /\ page = NoPage

\* a caller enters ai_search_and_rank(query, tires, keyword_mapping, api_key,
\* max_results) with max_results >= 0
Call ==
    /\ pc = "idle"
    /\ query' \in Queries
    /\ api_key' \in {None, Key}
    /\ max_results' \in (0..SmallMaxResults) \cup {DefaultMaxResults}
    /\ target_size' = None
    /\ target_brand' = None
    /\ categories' = {}
    /\ candidates' = <<>>
    /\ sent' = <<>>
    /\ response' = NoResponse
    /\ result' = <<>>
    /\ pc' = "prepare"
    /\ UNCHANGED <<tires, keyword_mapping, brand_keywords, env_key, refiltered,
                   API_KEY, data_file, page>>

\* the caller has the return value, or the exception
Return ==
    /\ pc \in {"returned", "raised"}
    /\ pc' = "idle"
    /\ UNCHANGED <<query, tires, keyword_mapping, brand_keywords, api_key,
                   env_key, max_results, target_size, target_brand, categories,
                   candidates, refiltered, sent, response, result, API_KEY,
                   data_file, page>>

NextRank == Call \/ Prepare \/ Construct \/ Request \/ Return

SpecRank == InitRank /\ [][NextRank]_vars

----------------------------------------------------------------------------
\* app.py: the search endpoint

AppMaxResults == 20

\* data/tires.json: absent, no JSON, JSON without "tires" or without
\* "keyword_mapping", or a catalog
DataFiles ==
    {[kind |-> k, tires |-> <<>>, keyword_mapping |-> NoMapping] :
        k \in {"missing", "not_json", "no_tires", "no_keyword_mapping"}}
    \cup {[kind |-> "ok", tires |-> c, keyword_mapping |-> Taxonomy] :
            c \in Catalogs}

\* load_data: the exception it raises, or "none"
LoadError(file) ==
    CASE file.kind = "missing" -> "FileNotFoundError"
      [] file.kind = "not_json" -> "JSONDecodeError"
      [] file.kind \in {"no_tires", "no_keyword_mapping"} -> "ValueError"
      [] OTHER -> "none"

Init ==
    /\ API_KEY \in {None, <<>>, Key}
    /\ env_key = (API_KEY # None)
    /\ data_file \in DataFiles
    /\ pc = "idle"
    /\ page = NoPage
    /\ query = <<>>
    /\ tires = NoCatalog
    /\ keyword_mapping = NoMapping
    /\ api_key = None
    /\ max_results = AppMaxResults
    /\ target_size = None
    /\ target_brand = None
    /\ categories = {}
    /\ brand_keywords = <<>>
    /\ candidates = <<>>
    /\ refiltered = <<>>
    /\ sent = <<>>
    /\ response = NoResponse
    /\ result = <<>>

\* lines 50-54: without a key, the error page, before anything is loaded
SearchNoKey ==
    /\ pc \in {"idle", "responded"}
    /\ ~Truthy(API_KEY)
    /\ query' \in Queries
    /\ page' = [error |-> "api_key_missing", results |-> <<>>]
    /\ pc' = "responded"
    /\ UNCHANGED <<tires, keyword_mapping, brand_keywords, api_key, env_key,
                   max_results, target_size, target_brand, categories,
                   candidates, refiltered, sent, response, result, API_KEY,
                   data_file>>

\* lines 57-71: load_data raised
SearchLoadFails ==
    /\ pc \in {"idle", "responded"}
    /\ Truthy(API_KEY)
    /\ LoadError(data_file) # "none"
    /\ query' \in Queries
    /\ page' = [error |-> LoadError(data_file), results |-> <<>>]
    /\ pc' = "responded"
    /\ UNCHANGED <<tires, keyword_mapping, brand_keywords, api_key, env_key,
                   max_results, target_size, target_brand, categories,
                   candidates, refiltered, sent, response, result, API_KEY,
                   data_file>>

\* lines 57-81: the catalog is loaded and ai_search_and_rank entered
SearchLoaded ==
    /\ pc \in {"idle", "responded"}
    /\ Truthy(API_KEY)
    /\ LoadError(data_file) = "none"
    /\ query' \in Queries
    /\ tires' = data_file.tires
    /\ keyword_mapping' = data_file.keyword_mapping
    /\ api_key' = API_KEY
    /\ max_results' = AppMaxResults
    /\ target_size' = None
    /\ target_brand' = None
    /\ categories' = {}
    /\ candidates' = <<>>
    /\ sent' = <<>>
    /\ response' = NoResponse
    /\ result' = <<>>
    /\ page' = NoPage
    /\ pc' = "prepare"
    /\ UNCHANGED <<brand_keywords, env_key, refiltered, API_KEY, data_file>>

\* lines 82-102: an exception of ai_search_and_rank becomes the error page,
\* its return value the results
SearchRespond ==
    /\ pc \in {"returned", "raised"}
    /\ page' = IF pc = "raised"
               THEN [error |-> "ai_search_failed", results |-> <<>>]
               ELSE [error |-> "none", results |-> result]
    /\ pc' = "responded"
    /\ UNCHANGED <<query, tires, keyword_mapping, brand_keywords, api_key,
                   env_key, max_results, target_size, target_brand, categories,
                   candidates, refiltered, sent, response, result, API_KEY,
                   data_file>>

Next ==
    \/ SearchNoKey
    \/ SearchLoadFails
    \/ SearchLoaded
    \/ Prepare
    \/ Construct
    \/ Request
    \/ SearchRespond

Spec == Init /\ [][Next]_vars

----------------------------------------------------------------------------
\* Claims about extract_size

Diameters == {"4", "5", "6", "7", "8", "9"}
Digits == {"0", "1", "2", "3", "4", "5", "6", "7", "8", "9"}

\* q holds, from index i: r or R, any whitespace, then "1" and the digit d
OccursAt(q, i, d) ==
    /\ q[i] \in {"r", "R"}
    /\ \E j \in (i + 1)..(Len(q) - 1) :
          /\ \A k \in (i + 1)..(j - 1) : IsSpace(q[k])
          /\ q[j] = "1"
          /\ q[j + 1] = d

ContainsR16(q) == \E i \in 1..Len(q) : OccursAt(q, i, "6")

\* the digit run that follows r or R and any whitespace from index i, or <<>>
RECURSIVE DigitRun(_, _)
DigitRun(q, j) ==
    IF j <= Len(q) /\ q[j] \in Digits
    THEN <<q[j]>> \o DigitRun(q, j + 1)
    ELSE <<>>

DigitsAfter(q, i) == DigitRun(q, SkipSpace(q, i + 1))

\* the run is one of 14 .. 19
IsDiameter(run) == Len(run) = 2 /\ run[1] = "1" /\ run[2] \in Diameters

\* q has r-plus-digits occurrences, and each one's number is outside 14 .. 19
OnlyOutsideDiameters(q) ==
    LET occ == {i \in 1..Len(q) : q[i] \in {"r", "R"} /\ DigitsAfter(q, i) # <<>>}
    IN  occ # {} /\ \A i \in occ : ~IsDiameter(DigitsAfter(q, i))

\* C4 as stated: every query containing "r16" or "R 16" (any case, any
\* whitespace) extracts "R16", and a query whose only r-plus-digits occurrences
\* have a diameter outside 14-19 extracts nothing.
C4_AsStated ==
    pc = "done" =>
        /\ (ContainsR16(query) => target_size = R16)
        /\ (OnlyOutsideDiameters(query) => target_size = None)

\* the leftmost occurrence of r, whitespace, 1, [4-9] in q is a 16
FirstOccurrenceIs16(q) ==
    \E i \in 1..Len(q) :
        /\ OccursAt(q, i, "6")
        /\ \A h \in 1..(i - 1) : \A d \in Diameters : ~OccursAt(q, h, d)

NoOccurrence(q) == \A i \in 1..Len(q) : \A d \in Diameters : ~OccursAt(q, i, d)

\* C4, amended: when the leftmost occurrence of r or R, any whitespace, "1" and
\* a digit 4-9 is a 16, extract_size returns "R16"; when the query holds no
\* such occurrence at all, extract_size returns nothing.
C4_FirstMatch ==
    pc = "done" =>
        /\ (FirstOccurrenceIs16(query) => target_size = R16)
        /\ (NoOccurrence(query) => target_size = None)

\* a 16 followed by a 14, as in "R16r14": the leftmost match wins
C4_Witness ==
    /\ pc = "done"
    /\ target_size = R16
    /\ FirstOccurrenceIs16(query)
    /\ query[1] = "R"
    /\ \E i \in 1..Len(query) : OccursAt(query, i, "4")

----------------------------------------------------------------------------
\* Claims about extract_brand

TriggerMatches(i) == IsSubstring(Lower(brand_keywords[i]), Lower(query))

\* C5: extract_brand returns nothing or an element of the list; nothing exactly
\* when no trigger's lower-cased form is a substring of the lower-cased query;
\* and among several matching triggers the first in list order.
C5_ExtractBrand ==
    pc = "done" =>
        /\ target_brand = None \/ target_brand \in Range(brand_keywords)
        /\ target_brand = None <=> ~ \E i \in DOMAIN brand_keywords : TriggerMatches(i)
        /\ \A i \in DOMAIN brand_keywords :
              (TriggerMatches(i) /\ \A j \in 1..(i - 1) : ~TriggerMatches(j))
                  => target_brand = brand_keywords[i]

\* first index at which word w starts in text s (w occurs in s)
FirstPos(w, s) ==
    CHOOSE i \in 0..Len(s) :
        /\ SubSeq(s, i + 1, i + Len(w)) = w
        /\ \A h \in 0..(i - 1) : SubSeq(s, h + 1, h + Len(w)) # w

\* two different triggers match, the second of the list earlier in the query
\* text than the first, and the first of the list is returned
C5_Witness ==
    /\ pc = "done"
    /\ Len(brand_keywords) = 2
    /\ brand_keywords[1] # brand_keywords[2]
    /\ brand_keywords[1] # <<>> /\ brand_keywords[2] # <<>>
    /\ TriggerMatches(1) /\ TriggerMatches(2)
    /\ FirstPos(Lower(brand_keywords[2]), Lower(query))
         < FirstPos(Lower(brand_keywords[1]), Lower(query))
    /\ target_brand = brand_keywords[1]

----------------------------------------------------------------------------
\* Claims about filter_tires

\* C6: filter_tires is idempotent: filtering its own result with the same
\* intent returns that result, the same items in the same order.
C6_Idempotent == pc = "done" => refiltered = candidates

\* a filter that kept some items and dropped others, then applied again
C6_Witness ==
    /\ pc = "done"
    /\ candidates # <<>>
    /\ Len(candidates) < Len(tires)
    /\ Truthy(target_brand) /\ Truthy(target_size) /\ categories # {}
    /\ refiltered = candidates

\* the item satisfies the brand, size and category predicates together
Satisfies(t) ==
    /\ \/ target_brand = None
       \/ IsSubstring(target_brand, Get(t, "brand_cn", <<>>))
       \/ IsSubstring(target_brand, Get(t, "brand_en", <<>>))
    /\ \/ target_size = None
       \/ IsSubstring(target_size, Upper(Get(t, "size", <<>>)))
    /\ \/ categories = {}
       \/ categories \cap Range(Get(t, "categories", <<>>)) # {}

\* the k-th smallest element of a set of numbers
Kth(S, k) == CHOOSE x \in S : Cardinality({y \in S : y < x}) = k - 1

\* seq is the subsequence of tires, in order, at the indices in keep
IsSubsequenceAt(seq, keep) ==
    /\ Len(seq) = Cardinality(keep)
    /\ \A k \in 1..Len(seq) : seq[k] = tires[Kth(keep, k)]

IntentOfQuery ==
    /\ target_size = extract_size(query)
    /\ target_brand = extract_brand(query, Get(keyword_mapping, "brand", <<>>))
    /\ categories = extract_categories(query, keyword_mapping)

\* C7: filter_tires returns exactly the subsequence of the catalog, in catalog
\* order, of the items satisfying the brand, size and category predicates
\* together; an intent with no size, brand or category returns the whole
\* catalog; "Brand1 r17 sport" over the catalog A, B, C yields exactly C.
C7_FilterExact ==
    pc \in {"filtered", "done"} =>
        /\ IsSubsequenceAt(candidates, {i \in 1..Len(tires) : Satisfies(tires[i])})
        /\ (target_size = None /\ target_brand = None /\ categories = {})
              => candidates = tires
        /\ (query = ScenarioQuery /\ tires = ScenarioCatalog /\ IntentOfQuery)
              => candidates = <<ItemC>>

\* the scenario, its intent taken from the query
C7_Witness ==
    /\ pc = "filtered"
    /\ query = ScenarioQuery
    /\ tires = ScenarioCatalog
    /\ IntentOfQuery
    /\ target_size = R17 /\ target_brand = Brand1 /\ categories = {"sport"}
    /\ candidates = <<ItemC>>

----------------------------------------------------------------------------
\* Claims about ai_search_and_rank

\* C1: whatever the failure of the ranking step, client construction
\* included, ai_search_and_rank never raises to its caller and returns a
\* sequence of length <= max_results.
C1_NeverRaises ==
    /\ pc # "raised"
    /\ pc = "returned" => Len(result) <= max_results

\* the filter's result for the query, before the fallback
Filtered ==
    filter_tires(tires, extract_categories(query, keyword_mapping),
                extract_size(query),
                extract_brand(query, Get(keyword_mapping, "brand", <<>>)))

\* the smaller of two numbers
Min(a, b) == IF a < b THEN a ELSE b

\* seq is the first n items of from, in order
IsPrefixOfLen(seq, from, n) ==
    /\ Len(seq) = n
    /\ \A i \in 1..n : seq[i] = from[i]

\* C2: when the ranking call raises, or returns content that is no JSON or no
\* list, the result is the first max_results items of the pre-ranking
\* candidates (the filtered list, or the fallback list), in the same order.
C2_FailureFallsBack ==
    (pc = "returned" /\ response.kind \in FailureKinds) =>
        LET pre == IF Filtered = <<>>
                   THEN Take(tires, FallbackCap)
                   ELSE Filtered
        IN  IsPrefixOfLen(result, pre, Min(max_results, Len(pre)))

\* a failed ranking over more candidates than max_results
C2_Witness ==
    /\ pc = "returned"
    /\ response.kind = "not_list"
    /\ Len(candidates) > max_results
    /\ max_results > 0
    /\ Len(result) = max_results
    /\ result[1] = candidates[1]

\* C3: an empty filter result hands the ranking call exactly the first
\* min(50, catalog size) items of the catalog in catalog order; a non-empty one
\* is handed over unchanged and uncapped.
C3_Candidates ==
    pc = "returned" =>
        /\ Filtered = <<>> => IsPrefixOfLen(sent, tires, Min(FallbackCap, Len(tires)))
        /\ Filtered # <<>> => sent = Filtered

\* nothing matches in a catalog of more than 50 items: 50 are handed over
C3_Witness ==
    /\ pc = "returned"
    /\ Filtered = <<>>
    /\ Len(tires) > FallbackCap
    /\ Len(sent) = FallbackCap

\* C9: a response that parses as a JSON list is returned cut to max_results,
\* in its order, its items not checked against the candidates: the result may
\* hold items the catalog does not, and an empty list gives an empty result.
C9_ListReturnedAsIs ==
    (pc = "returned" /\ response.kind = "list") =>
        /\ IsPrefixOfLen(result, response.value,
                         Min(max_results, Len(response.value)))
        /\ response.value = <<>> => result = <<>>

\* the result holds an item that is not in the catalog
C9_Witness ==
    /\ pc = "returned"
    /\ response.kind = "list"
    /\ candidates # <<>>
    /\ \E i \in 1..Len(result) : result[i] \notin Range(tires)

\* C10: no step of a query changes the loaded catalog: the items, their
\* fields and the taxonomy stay what they were after load.
C10_CatalogUnchanged ==
    [][tires' = tires /\ keyword_mapping' = keyword_mapping]_vars

\* a query that fell back to the first 50 of a longer catalog has returned
C10_Witness ==
    /\ pc = "idle"
    /\ response.kind = "list"
    /\ Len(tires) = BigCatalogLen
    /\ Len(sent) = FallbackCap
    /\ Len(result) = max_results

----------------------------------------------------------------------------
\* Claims about search

\* C8: search surfaces an error only when catalog loading fails; in every
\* other execution it returns a result list and no error.
C8_OnlyLoadErrors ==
    (pc = "responded" /\ page.error # "none") => LoadError(data_file) # "none"

=============================================================================
